---- MODULE Spec2Model ----
(***************************************************************************)
(* Model of the connection cache (src/lib/mongodb.ts), the Event schema    *)
(* and its pre-save hook (src/unnamed/part_001, event.model) and the       *)
(* Booking schema and its pre-save hook (src/database/booking.model.ts).   *)
(*                                                                         *)
(* Strings are sequences of one-character strings, so that trim,           *)
(* toLowerCase, the regular expressions and the slug generator are         *)
(* computed character by character.                                        *)
(***************************************************************************)
EXTENDS Naturals, Sequences, FiniteSets

\* ------------------------------------------------------------------ bounds
MaxBookings == 2
MaxEvents == 2
MaxTitleLen == 4
MaxAttempts == 3
MaxCalls == 4
NumCallers == 3

Callers == 1..NumCallers
Attempts == 1..MaxAttempts

VARIABLES
    \* --- connection cache (src/lib/mongodb.ts)
    conn,       \* cached.conn: 0 is null, a > 0 the handle attempt a resolved with
    promise,    \* cached.promise: 0 is null, a > 0 the promise of attempt a
    nAttempts,  \* number of mongoose.connect invocations so far
    attState,   \* per attempt: "unused", "pending", "io_ok", "io_err", "resolved", "rejected"
    reactions,  \* per attempt: the callers awaiting its pending promise, in order
    queue,      \* the microtask queue (FIFO)
    pc,         \* per caller: "idle", "scheduled", "awaiting", "returned", "failed"
    awaiting,   \* per caller: the attempt whose promise its await took
    ret,        \* per caller: the handle its last call returned (0: none)
    err,        \* per caller: the attempt whose error its last call threw (0: none)
    nCalls      \* number of connectDB calls scheduled so far

connVars == <<conn, promise, nAttempts, attState, reactions, queue, pc, awaiting, ret, err, nCalls>>

VARIABLES
    \* --- slug generation on its own (generateSlug, event.model)
    slugTitle,  \* the title handed to generateSlug
    slugRuns,   \* how many times generateSlug has been applied (0, 1, 2)
    slugOnce,   \* generateSlug(slugTitle)
    slugTwice   \* generateSlug(generateSlug(slugTitle))

slugVars == <<slugTitle, slugRuns, slugOnce, slugTwice>>

VARIABLES
    \* --- the Event and Booking collections and the document being saved
    events,         \* the persisted Events (records with a unique id)
    nextEventId,    \* the id the next inserted Event gets
    bookings,       \* the persisted Bookings
    nextBookingId,  \* the id the next inserted Booking gets
    doc,            \* the document in memory that is about to be saved (NoDoc: none)
    pendingWrite,   \* a Booking whose pre-save hook passed and whose write is under way
    lastSave        \* the last save: the document as submitted, its options and outcome

storeVars == <<events, nextEventId, bookings, nextBookingId, doc, pendingWrite, lastSave>>

vars == <<connVars, slugVars, storeVars>>

\* ------------------------------------------------------------- strings
\* String.prototype.trim, toLowerCase and the regular-expression classes,
\* character by character.

Whitespace == {" "}
Digits == {"0", "1", "2", "3", "4", "5", "6", "7", "8", "9"}
LowerLetters == {"a", "b", "t", "x", "z"}

LowerChar(ch) ==
    CASE ch = "A" -> "a"
      [] ch = "B" -> "b"
      [] ch = "T" -> "t"
      [] ch = "X" -> "x"
      [] ch = "Z" -> "z"
      [] OTHER -> ch

RECURSIVE TrimStart(_)
TrimStart(s) ==
    IF s # <<>> /\ Head(s) \in Whitespace THEN TrimStart(Tail(s)) ELSE s

RECURSIVE TrimEnd(_)
TrimEnd(s) ==
    IF s # <<>> /\ s[Len(s)] \in Whitespace
      THEN TrimEnd(SubSeq(s, 1, Len(s) - 1))
      ELSE s

Trim(s) == TrimEnd(TrimStart(s))

ToLowerCase(s) == [i \in 1..Len(s) |-> LowerChar(s[i])]

RECURSIVE Filter(_, _)
Filter(s, keep) ==
    IF s = <<>> THEN <<>>
    ELSE IF Head(s) \in keep THEN <<Head(s)>> \o Filter(Tail(s), keep)
    ELSE Filter(Tail(s), keep)

\* s.replace(/[from]+/g, to): every maximal run of characters of `from`
\* becomes the single character `to`.
RECURSIVE ReplaceRuns(_, _, _)
ReplaceRuns(s, from, to) ==
    IF s = <<>> THEN <<>>
    ELSE IF Head(s) \in from
      THEN IF Len(s) > 1 /\ s[2] \in from
             THEN ReplaceRuns(Tail(s), from, to)
             ELSE <<to>> \o ReplaceRuns(Tail(s), from, to)
    ELSE <<Head(s)>> \o ReplaceRuns(Tail(s), from, to)

\* --------------------------------------------- generateSlug (event.model)

\* /[^a-z0-9\s-]/g removes every character outside this class
SlugKept == LowerLetters \cup Digits \cup Whitespace \cup {"-"}

\* the slug generator with its last two replacements in the other order
generateSlugCollapseFirst(title) ==
    ReplaceRuns(ReplaceRuns(Filter(ToLowerCase(Trim(title)), SlugKept), {"-"}, "-"), Whitespace, "-")

generateSlug(title) ==
    ReplaceRuns(ReplaceRuns(Filter(ToLowerCase(Trim(title)), SlugKept), Whitespace, "-"), {"-"}, "-")

\* ------------------------------------------------ Event (event.model)
\* A field that was never set (undefined) is Missing; every other value is
\* a string.
Missing == <<"undefined">>

IsString(v) == v # Missing

\* const requiredStringFields = [...], in the order the hook checks them
RequiredStringFields ==
    <<"title", "description", "overview", "image", "venue", "location",
      "date", "time", "mode", "audience", "organizer">>

\* the list without its last entry
RequiredStringFieldsShort ==
    <<"title", "description", "overview", "image", "venue", "location",
      "date", "time", "mode", "audience">>

FieldNames == {RequiredStringFields[i] : i \in 1..Len(RequiredStringFields)}

NoError == [kind |-> "none"]
NoDoc == [kind |-> "none"]

\* schema option trim: true (title ... organizer, slug): the setter trims
\* a string when it is assigned
TrimSetter(v) == IF IsString(v) THEN Trim(v) ELSE v

\* an array path keeps its items as given; the hook trims them
ApplyEventSetters(d) ==
    [d EXCEPT !.f = [n \in FieldNames |-> TrimSetter(d.f[n])],
              !.slug = TrimSetter(d.slug)]

\* required: true on a String path rejects undefined and the empty string
RequiredFails(v) == ~IsString(v) \/ v = <<>>

\* validator of agenda and of tags: a non-empty array of strings that are
\* non-empty after trimming
ListValid(list) ==
    /\ Len(list) > 0
    /\ \A i \in 1..Len(list) : Len(Trim(list[i])) > 0

\* Mongoose's validation of the schema, which runs before the pre-save
\* hooks unless the save is given validateBeforeSave: false. Its error
\* names every failing path.
EventSchemaInvalid(d) ==
    {n \in FieldNames : RequiredFails(d.f[n])}
        \cup (IF ListValid(d.agenda) THEN {} ELSE {"agenda"})
        \cup (IF ListValid(d.tags) THEN {} ELSE {"tags"})

\* typeof value !== 'string' || value.trim().length === 0
BlankField(v) == ~IsString(v) \/ Len(Trim(v)) = 0

\* for (const field of requiredStringFields) { ... }: the first blank field
\* ends the hook with its error; the fields before it have been trimmed
RECURSIVE RequiredLoop(_, _, _)
RequiredLoop(d, fields, i) ==
    IF i > Len(fields)
      THEN [error |-> NoError, doc |-> d]
      ELSE IF BlankField(d.f[fields[i]])
        THEN [error |-> [kind |-> "Error", message |-> "required", fields |-> {fields[i]}],
              doc |-> d]
        ELSE RequiredLoop([d EXCEPT !.f[fields[i]] = Trim(d.f[fields[i]])], fields, i + 1)

CheckedFields == RequiredStringFields

TrimItems(list) == [i \in 1..Len(list) |-> Trim(list[i])]

\* new Date(this.date) and toISOString().split('T')[0], for the date
\* strings the model submits (a date string is a sequence of tokens: the
\* engine's date parser is not modelled character by character).
\* InvalidDate stands for a Date whose getTime() is NaN.
InvalidDate == <<"NaN">>

ParseDate(s) ==
    CASE s = <<"2024-03-05">> -> <<"2024-03-05">>
      [] s = <<"2024-03-05", "T10:00:00Z">> -> <<"2024-03-05">>
      [] OTHER -> InvalidDate

\* the pattern with the hour read as [0-2]\d
TimeMatchAnyHour(s) ==
    /\ Len(s) = 5
    /\ s[1] \in {"0", "1", "2"} /\ s[2] \in Digits
    /\ s[3] = ":"
    /\ s[4] \in {"0", "1", "2", "3", "4", "5"}
    /\ s[5] \in Digits

\* /^([01]\d|2[0-3]):([0-5]\d)$/
TimeMatch(s) ==
    /\ Len(s) = 5
    /\ \/ s[1] \in {"0", "1"} /\ s[2] \in Digits
       \/ s[1] = "2" /\ s[2] \in {"0", "1", "2", "3"}
    /\ s[3] = ":"
    /\ s[4] \in {"0", "1", "2", "3", "4", "5"}
    /\ s[5] \in Digits

\* const [, hours, minutes] = timeMatch; this.time = `${hours}:${minutes}`
FormatTime(s) == SubSeq(s, 1, 2) \o <<":">> \o SubSeq(s, 4, 5)

\* !this.slug: undefined and the empty string are falsy
SlugFalsy(v) == ~IsString(v) \/ v = <<>>

\* this.isModified('title'): a new document's title is modified once set;
\* a loaded document's when it differs from the loaded value
IsModifiedTitle(d) ==
    IF d.isNew THEN IsString(d.f["title"]) ELSE d.f["title"] # d.orig.f["title"]

\* the slug is regenerated on every save
SlugRegeneratedAlways(d) == TRUE

\* if (this.isModified('title') || !this.slug)
SlugRegenerated(d) == IsModifiedTitle(d) \/ SlugFalsy(d.slug)

\* the part of the hook after the loop over the required fields
EventNormalize(d) ==
    LET d1 == [d EXCEPT !.agenda = TrimItems(d.agenda), !.tags = TrimItems(d.tags)]
        parsed == ParseDate(d1.f["date"])
        d2 == [d1 EXCEPT !.f["date"] = parsed]
        timeValue == Trim(d2.f["time"])
        d3 == [d2 EXCEPT !.f["time"] = FormatTime(timeValue)]
        d4 == IF SlugRegenerated(d3)
                THEN [d3 EXCEPT !.slug = generateSlug(d3.f["title"])]
                ELSE d3
    IN  IF parsed = InvalidDate
          THEN [error |-> [kind |-> "Error", message |-> "date", fields |-> {"date"}],
                doc |-> d1]
        ELSE IF ~TimeMatch(timeValue)
          THEN [error |-> [kind |-> "Error", message |-> "time", fields |-> {"time"}],
                doc |-> d2]
        ELSE [error |-> NoError, doc |-> d4]

\* eventSchema.pre('save', function preSave(next) { ... }): the error handed
\* to next (NoError for next()) and the document as the hook leaves it
EventPreSave(d) ==
    LET looped == RequiredLoop(d, CheckedFields, 1)
    IN  IF looped.error # NoError THEN looped ELSE EventNormalize(looped.doc)

\* ------------------------------------------- saving an Event document

\* the persisted form of a document
EventRecord(d, id) ==
    [id |-> id, f |-> d.f, slug |-> d.slug, agenda |-> d.agenda, tags |-> d.tags]

EventIds == {e.id : e \in events}

\* a collection without the unique index
SlugConflictNever(d) == FALSE

\* slug: { unique: true, index: true }: the collection's unique index
\* refuses a write that would give two documents the same slug
SlugConflict(d) == \E e \in events : e.id # d.id /\ e.slug = d.slug

Modified(d) == d.isNew \/ EventRecord(d, d.id) # d.orig

\* The write that follows the hooks: an insert for a new document, an
\* update of the stored one otherwise.
EventWrite(d) ==
    IF d.isNew
      THEN IF SlugConflict(d)
             THEN [error |-> [kind |-> "DuplicateKey", message |-> "E11000", fields |-> {"slug"}],
                   events |-> events]
             ELSE [error |-> NoError,
                   events |-> events \cup {EventRecord(d, nextEventId)}]
    ELSE IF ~Modified(d)
      THEN [error |-> NoError, events |-> events]
    ELSE IF d.id \notin EventIds
      THEN [error |-> [kind |-> "DocumentNotFound", message |-> "not found", fields |-> {}],
            events |-> events]
    ELSE IF SlugConflict(d)
      THEN [error |-> [kind |-> "DuplicateKey", message |-> "E11000", fields |-> {"slug"}],
            events |-> events]
    ELSE [error |-> NoError,
          events |-> {e \in events : e.id # d.id} \cup {EventRecord(d, d.id)}]

\* only the errors of the loop over the required fields end the save
AbortsOnRequiredOnly(error) == error # NoError /\ error.message = "required"

\* return next(new Error(...)): an error handed to next ends the save
\* before anything is written
Aborts(error) == error # NoError

\* doc.save({ validateBeforeSave }): schema validation, the pre-save hook,
\* then the write.
SaveEvent(vbs) ==
    /\ doc.kind = "event"
    /\ LET invalid == EventSchemaInvalid(doc)
           hooked == IF vbs /\ invalid # {}
                       THEN [error |-> [kind |-> "ValidationError", message |-> "validation",
                                        fields |-> invalid],
                             doc |-> doc]
                       ELSE EventPreSave(doc)
           written == IF Aborts(hooked.error)
                        THEN [error |-> NoError, events |-> events]
                        ELSE EventWrite(hooked.doc)
           error == IF hooked.error # NoError THEN hooked.error ELSE written.error
       IN  /\ events' = written.events
           /\ nextEventId' = IF doc.isNew /\ written.events # events
                               THEN nextEventId + 1 ELSE nextEventId
           /\ lastSave' = [kind |-> "event", input |-> doc, vbs |-> vbs,
                           error |-> error, after |-> hooked.doc]
    /\ doc' = NoDoc
    /\ UNCHANGED <<bookings, nextBookingId, pendingWrite>>
    /\ UNCHANGED <<connVars, slugVars>>

\* ---- the documents the application builds

DefaultFields ==
    [n \in FieldNames |->
        CASE n = "title" -> <<"A", "b">>
          [] n = "date" -> <<"2024-03-05">>
          [] n = "time" -> <<"0", "9", ":", "0", "5">>
          [] OTHER -> <<"x">>]

TitleInputs ==
    { <<"A", "b">>, <<"a", "b">>, <<" ", "a", " ", "b">>, <<"!">> }

TimeInputs ==
    { <<"9", ":", "5">>, <<"2", "4", ":", "0", "0">>,
      <<"1", "2", ":", "6", "0">>, <<"0", "9", "0", "5">>, <<" ", "0", "9", ":", "0", "5">>,
      <<"0", "9", ":", "0", "5", "0">> }

DateInputs == { <<"2024-03-05", "T10:00:00Z">>, <<"not-a-date">> }

BlankInputs == { Missing, <<" ">> }

PlainInputs == { <<" ", "x", " ">> }

SlugInputs == { Missing, <<"z", "z">> }

ListInputs == { << <<" ", "x">> >> }

Edit(path, value) == [path |-> path, value |-> value]

\* one change of one path
SingleEdits ==
    {<<>>}
    \cup {<<Edit("title", v)>> : v \in TitleInputs}
    \cup {<<Edit("time", v)>> : v \in TimeInputs}
    \cup {<<Edit("date", v)>> : v \in DateInputs}
    \cup {<<Edit(n, v)>> : n \in FieldNames, v \in BlankInputs \cup PlainInputs}
    \cup {<<Edit("slug", v)>> : v \in SlugInputs}
    \cup {<<Edit(n, v)>> : n \in {"agenda", "tags"}, v \in ListInputs}

\* one change, or the same blank value given to two required fields
EventEdits ==
    SingleEdits
    \cup {<<Edit(RequiredStringFields[i], v), Edit(RequiredStringFields[j], v)>> :
            i \in 1..Len(RequiredStringFields), j \in 1..Len(RequiredStringFields),
            v \in BlankInputs}


ApplyEdit(d, e) ==
    CASE e.path = "slug" -> [d EXCEPT !.slug = e.value]
      [] e.path = "agenda" -> [d EXCEPT !.agenda = e.value]
      [] e.path = "tags" -> [d EXCEPT !.tags = e.value]
      [] OTHER -> [d EXCEPT !.f[e.path] = e.value]

RECURSIVE ApplyEdits(_, _)
ApplyEdits(d, edits) ==
    IF edits = <<>> THEN d ELSE ApplyEdits(ApplyEdit(d, Head(edits)), Tail(edits))

\* new Event({...}): no slug is given unless an edit gives one
BlankEventDoc ==
    [kind |-> "event", id |-> 0, isNew |-> TRUE, orig |-> NoDoc,
     f |-> DefaultFields, slug |-> Missing,
     agenda |-> << <<"x">> >>, tags |-> << <<"x">> >>]

NewEvent(edits) ==
    /\ doc = NoDoc
    /\ pendingWrite = NoDoc
    /\ lastSave.kind = "none"
    /\ nextEventId <= MaxEvents
    /\ doc' = ApplyEventSetters(ApplyEdits(BlankEventDoc, edits))
    /\ UNCHANGED <<events, nextEventId, bookings, nextBookingId, pendingWrite, lastSave>>
    /\ UNCHANGED <<connVars, slugVars>>

\* Event.findById(id), then assignments to the loaded document
LoadEvent(e, edits) ==
    /\ doc = NoDoc
    /\ pendingWrite = NoDoc
    /\ lastSave.kind = "none"
    /\ e \in events
    /\ doc' = ApplyEventSetters(ApplyEdits(
                [kind |-> "event", id |-> e.id, isNew |-> FALSE, orig |-> e,
                 f |-> e.f, slug |-> e.slug, agenda |-> e.agenda, tags |-> e.tags],
                edits))
    /\ UNCHANGED <<events, nextEventId, bookings, nextBookingId, pendingWrite, lastSave>>
    /\ UNCHANGED <<connVars, slugVars>>

\* The caller of save() has its outcome and lets go of the document.
Respond ==
    /\ lastSave.kind # "none"
    /\ lastSave' = [kind |-> "none"]
    /\ UNCHANGED <<events, nextEventId, bookings, nextBookingId, doc, pendingWrite>>
    /\ UNCHANGED <<connVars, slugVars>>

\* Event.deleteOne({ _id: id })
DeleteEvent(e) ==
    /\ e \in events
    /\ events' = events \ {e}
    /\ UNCHANGED <<nextEventId, bookings, nextBookingId, doc, pendingWrite, lastSave>>
    /\ UNCHANGED <<connVars, slugVars>>

\* ------------------------------------- Booking (booking.model.ts)
\* An eventId that was never set is 0.

\* const EMAIL_REGEX = /^[^\s@]+@[^\s@]+\.[^\s@]+$/
EmailPart(s, from, to) ==
    /\ from <= to
    /\ \A k \in from..to : s[k] \notin Whitespace \cup {"@"}

EmailMatch(s) ==
    \E i \in 1..Len(s), j \in 1..Len(s) :
        /\ i < j
        /\ s[i] = "@"
        /\ s[j] = "."
        /\ EmailPart(s, 1, i - 1)
        /\ EmailPart(s, i + 1, j - 1)
        /\ EmailPart(s, j + 1, Len(s))

\* schema options trim: true, lowercase: true on email
EmailSetter(v) == IF IsString(v) THEN ToLowerCase(Trim(v)) ELSE v

ApplyBookingSetters(d) == [d EXCEPT !.email = EmailSetter(d.email)]

\* required: true on eventId and email, and email's validator
BookingSchemaInvalid(d) ==
    (IF d.eventId = 0 THEN {"eventId"} ELSE {})
        \cup (IF RequiredFails(d.email) \/ ~EmailMatch(d.email) THEN {"email"} ELSE {})

\* if (!this.email || !EMAIL_REGEX.test(this.email))
EmailFails(d) == ~IsString(d.email) \/ d.email = <<>> \/ ~EmailMatch(d.email)

\* const existingEvent = await Event.exists({ _id: this.eventId })
EventExists(d) == d.eventId \in EventIds

\* the check made for a new document only
EventCheckFailsOnInsert(d) == d.isNew /\ ~EventExists(d)

\* if (!existingEvent), checked on every save
EventCheckFails(d) == ~EventExists(d)

\* bookingSchema.pre('save', async function preSave(next) { ... }): the
\* error handed to next (NoError for next())
BookingPreSave(d) ==
    IF EmailFails(d)
      THEN [kind |-> "Error", message |-> "email", fields |-> {"email"}]
    ELSE IF d.eventId = 0
      THEN [kind |-> "Error", message |-> "eventId", fields |-> {"eventId"}]
    ELSE IF EventCheckFails(d)
      THEN [kind |-> "Error", message |-> "Referenced event does not exist.",
            fields |-> {"eventId"}]
    ELSE NoError

BookingRecord(d, id) == [id |-> id, eventId |-> d.eventId, email |-> d.email]

\* doc.save({ validateBeforeSave }) up to the end of the pre-save hook:
\* schema validation, then the hook with its read of the Event collection.
\* A passing document goes on to its write.
SaveBooking(vbs) ==
    /\ doc.kind = "booking"
    /\ LET invalid == BookingSchemaInvalid(doc)
           error == IF vbs /\ invalid # {}
                      THEN [kind |-> "ValidationError", message |-> "validation",
                            fields |-> invalid]
                      ELSE BookingPreSave(doc)
       IN  /\ pendingWrite' = IF Aborts(error) THEN NoDoc ELSE doc
           /\ lastSave' = IF error # NoError
                            THEN [kind |-> "booking", input |-> doc, vbs |-> vbs,
                                  error |-> error, after |-> doc]
                            ELSE lastSave
    /\ doc' = NoDoc
    /\ UNCHANGED <<events, nextEventId, bookings, nextBookingId>>
    /\ UNCHANGED <<connVars, slugVars>>

\* The write that follows the hook: an insert for a new document, an
\* update of the stored one otherwise.
WriteBooking ==
    /\ pendingWrite.kind = "booking"
    /\ IF pendingWrite.isNew
         THEN /\ bookings' = bookings \cup {BookingRecord(pendingWrite, nextBookingId)}
              /\ nextBookingId' = nextBookingId + 1
         ELSE /\ bookings' = {b \in bookings : b.id # pendingWrite.id}
                                \cup {BookingRecord(pendingWrite, pendingWrite.id)}
              /\ UNCHANGED nextBookingId
    /\ lastSave' = [kind |-> "booking", input |-> pendingWrite, vbs |-> TRUE,
                    error |-> NoError, after |-> pendingWrite]
    /\ pendingWrite' = NoDoc
    /\ UNCHANGED <<events, nextEventId, doc>>
    /\ UNCHANGED <<connVars, slugVars>>

EmailInputs ==
    { <<"a", "@", "b", ".", "t">>, <<" ", "A", "@", "b", ".", "t">>,
      <<"a", "@", "b">>, <<"a", "b", ".", "t">>, <<"a", "@", "@", "b", ".", "t">>,
      <<"a", " ", "@", "b", ".", "t">>, <<"x", "@", "b", ".", "z">>, <<" ">>, Missing }

\* new Booking({ eventId, email })
NewBooking(eventId, email) ==
    /\ doc = NoDoc
    /\ pendingWrite = NoDoc
    /\ lastSave.kind = "none"
    /\ nextBookingId <= MaxBookings
    /\ doc' = ApplyBookingSetters(
                [kind |-> "booking", id |-> 0, isNew |-> TRUE, orig |-> NoDoc,
                 eventId |-> eventId, email |-> email])
    /\ UNCHANGED <<events, nextEventId, bookings, nextBookingId, pendingWrite, lastSave>>
    /\ UNCHANGED <<connVars, slugVars>>

\* Booking.findById(id), with or without a new email assigned to it
LoadBooking(b, emails) ==
    /\ doc = NoDoc
    /\ pendingWrite = NoDoc
    /\ lastSave.kind = "none"
    /\ b \in bookings
    /\ \E email \in emails \cup {b.email} :
         doc' = ApplyBookingSetters(
                  [kind |-> "booking", id |-> b.id, isNew |-> FALSE, orig |-> b,
                   eventId |-> b.eventId, email |-> email])
    /\ UNCHANGED <<events, nextEventId, bookings, nextBookingId, pendingWrite, lastSave>>
    /\ UNCHANGED <<connVars, slugVars>>

\* ------------------------------------------------- src/lib/mongodb.ts

Settled(a) == attState[a] \in {"resolved", "rejected"}
InFlight(a) == attState[a] \in {"pending", "io_ok", "io_err"}

CallJob(c) == [type |-> "call", who |-> c]
ContJob(c) == [type |-> "cont", who |-> c]
ThenJob(a) == [type |-> "then", who |-> a]

\* The application calls connectDB() from a promise reaction (or, with the
\* queue empty, directly from a task): the call becomes a job of the queue.
Schedule(c) ==
    /\ pc[c] \in {"idle", "returned", "failed"}
    /\ nCalls < MaxCalls
    /\ nCalls' = nCalls + 1
    /\ pc' = [pc EXCEPT ![c] = "scheduled"]
    /\ queue' = Append(queue, CallJob(c))
    /\ UNCHANGED <<conn, promise, nAttempts, attState, reactions, awaiting, ret, err>>
    /\ UNCHANGED <<slugVars, storeVars>>

\* if (cached.conn) return cached.conn;
ReturnCached(c) ==
    /\ conn # 0
    /\ pc' = [pc EXCEPT ![c] = "returned"]
    /\ ret' = [ret EXCEPT ![c] = conn]
    /\ err' = [err EXCEPT ![c] = 0]
    /\ queue' = Tail(queue)
    /\ awaiting' = [awaiting EXCEPT ![c] = 0]
    /\ UNCHANGED <<conn, promise, nAttempts, attState, reactions>>

\* a connection started by every call that finds no handle cached
StartsAttemptAlways == TRUE

\* if (!cached.promise) cached.promise = mongoose.connect(...).then(...)
StartsAttempt == promise = 0

\* The synchronous part of connectDB up to its await, when no handle is cached.
AwaitPromise(c) ==
    /\ conn = 0
    /\ IF StartsAttempt
         THEN /\ nAttempts < MaxAttempts
              /\ nAttempts' = nAttempts + 1
              /\ promise' = nAttempts + 1
              /\ attState' = [attState EXCEPT ![nAttempts + 1] = "pending"]
         ELSE UNCHANGED <<nAttempts, promise, attState>>
    /\ awaiting' = [awaiting EXCEPT ![c] = promise']
    /\ pc' = [pc EXCEPT ![c] = "awaiting"]
    \* await on a settled promise queues the continuation at once; on a
    \* pending one it registers a reaction
    /\ IF Settled(promise')
         THEN /\ queue' = Append(Tail(queue), ContJob(c))
              /\ UNCHANGED reactions
         ELSE /\ queue' = Tail(queue)
              /\ reactions' = [reactions EXCEPT ![promise'] = Append(@, c)]
    /\ UNCHANGED <<conn, ret, err>>

RunCall ==
    /\ queue # <<>>
    /\ Head(queue).type = "call"
    /\ \/ ReturnCached(Head(queue).who)
       \/ AwaitPromise(Head(queue).who)
    /\ UNCHANGED <<nCalls, slugVars, storeVars>>

\* The driver's connection attempt finishes: the promise mongoose.connect
\* returned settles, which queues the reaction of .then((mongoose) => mongoose).
IOComplete(a, ok) ==
    /\ attState[a] = "pending"
    /\ attState' = [attState EXCEPT ![a] = IF ok THEN "io_ok" ELSE "io_err"]
    /\ queue' = Append(queue, ThenJob(a))
    /\ UNCHANGED <<conn, promise, nAttempts, reactions, pc, awaiting, ret, err, nCalls>>
    /\ UNCHANGED <<slugVars, storeVars>>

RECURSIVE ContJobs(_)
ContJobs(s) == IF s = <<>> THEN <<>> ELSE <<ContJob(Head(s))>> \o ContJobs(Tail(s))

\* The .then reaction runs: cached.promise's promise settles and the
\* continuations of the callers awaiting it are queued in registration order.
RunThen ==
    /\ queue # <<>>
    /\ Head(queue).type = "then"
    /\ LET a == Head(queue).who IN
        /\ attState' = [attState EXCEPT ![a] = IF attState[a] = "io_ok" THEN "resolved" ELSE "rejected"]
        /\ queue' = Tail(queue) \o ContJobs(reactions[a])
        /\ reactions' = [reactions EXCEPT ![a] = <<>>]
    /\ UNCHANGED <<conn, promise, nAttempts, pc, awaiting, ret, err, nCalls>>
    /\ UNCHANGED <<slugVars, storeVars>>

\* catch (e) { cached.promise = null; throw e; }
ClearedPromise == 0

\* cached.conn = await cached.promise; return cached.conn;
ContResolve ==
    /\ queue # <<>>
    /\ Head(queue).type = "cont"
    /\ LET c == Head(queue).who IN
        /\ attState[awaiting[c]] = "resolved"
        /\ conn' = awaiting[c]
        /\ pc' = [pc EXCEPT ![c] = "returned"]
        /\ ret' = [ret EXCEPT ![c] = conn']
        /\ err' = [err EXCEPT ![c] = 0]
    /\ queue' = Tail(queue)
    /\ UNCHANGED <<promise, nAttempts, attState, reactions, awaiting, nCalls>>
    /\ UNCHANGED <<slugVars, storeVars>>

ContReject ==
    /\ queue # <<>>
    /\ Head(queue).type = "cont"
    /\ LET c == Head(queue).who IN
        /\ attState[awaiting[c]] = "rejected"
        /\ promise' = ClearedPromise
        /\ pc' = [pc EXCEPT ![c] = "failed"]
        /\ err' = [err EXCEPT ![c] = awaiting[c]]
        /\ ret' = [ret EXCEPT ![c] = 0]
    /\ queue' = Tail(queue)
    /\ UNCHANGED <<conn, nAttempts, attState, reactions, awaiting, nCalls>>
    /\ UNCHANGED <<slugVars, storeVars>>

ConnIdle ==
    /\ conn = 0
    /\ promise = 0
    /\ nAttempts = 0
    /\ attState = [a \in Attempts |-> "unused"]
    /\ reactions = [a \in Attempts |-> <<>>]
    /\ queue = <<>>
    /\ pc = [c \in Callers |-> "idle"]
    /\ awaiting = [c \in Callers |-> 0]
    /\ ret = [c \in Callers |-> 0]
    /\ err = [c \in Callers |-> 0]
    /\ nCalls = 0

NextConn ==
    \/ \E c \in Callers : Schedule(c)
    \/ RunCall
    \/ \E a \in Attempts, ok \in BOOLEAN : IOComplete(a, ok)
    \/ RunThen
    \/ ContResolve
    \/ ContReject

SlugIdle ==
    /\ slugTitle = <<>>
    /\ slugRuns = 0
    /\ slugOnce = <<>>
    /\ slugTwice = <<>>

StoreIdle ==
    /\ events = {}
    /\ nextEventId = 1
    /\ bookings = {}
    /\ nextBookingId = 1
    /\ doc = NoDoc
    /\ pendingWrite = NoDoc
    /\ lastSave = [kind |-> "none"]

InitConn == ConnIdle /\ SlugIdle /\ StoreIdle

\* ------------------------------------------------ the Event collection

NextEvent ==
    \/ \E edits \in EventEdits : NewEvent(edits)
    \/ \E e \in events, edits \in SingleEdits : LoadEvent(e, edits)
    \/ \E vbs \in BOOLEAN : SaveEvent(vbs)
    \/ Respond

InitEvent == ConnIdle /\ SlugIdle /\ StoreIdle

EventSpec == InitEvent /\ [][NextEvent]_vars

\* ------------------------------------- the Event and Booking collections
\* Events are built from a few documents, one for each way the Event hook
\* can end; Bookings from every email and event reference.

FewEventEdits ==
    { <<>>,
      <<Edit("title", <<" ", "a", " ", "b">>)>>,
      <<Edit("venue", <<" ">>)>>,
      <<Edit("date", <<"not-a-date">>)>>,
      <<Edit("time", <<"9", ":", "5">>)>> }

NextStore ==
    \/ \E edits \in FewEventEdits : NewEvent(edits)
    \/ \E e \in events, edits \in FewEventEdits : LoadEvent(e, edits)
    \/ \E vbs \in BOOLEAN : SaveEvent(vbs)
    \/ \E e \in events : DeleteEvent(e)
    \/ \E eventId \in 0..MaxEvents, email \in EmailInputs : NewBooking(eventId, email)
    \/ \E b \in bookings : LoadBooking(b, {<<"a", "@", "b">>})
    \/ \E vbs \in BOOLEAN : SaveBooking(vbs)
    \/ WriteBooking
    \/ Respond

InitStore == ConnIdle /\ SlugIdle /\ StoreIdle

StoreSpec == InitStore /\ [][NextStore]_vars

\* ------------------------------------------------ generateSlug on its own
\* Every title of at most MaxTitleLen characters over SlugChars.

SlugChars == {"a", "B", "1", " ", "-", "!"}

RECURSIVE StringsUpTo(_, _)
StringsUpTo(chars, n) ==
    IF n = 0 THEN {<<>>}
    ELSE LET shorter == StringsUpTo(chars, n - 1)
         IN shorter \cup {Append(s, ch) : s \in shorter, ch \in chars}

InitSlug ==
    /\ ConnIdle
    /\ StoreIdle
    /\ slugTitle \in StringsUpTo(SlugChars, MaxTitleLen)
    /\ slugRuns = 0
    /\ slugOnce = <<>>
    /\ slugTwice = <<>>

SlugFirst ==
    /\ slugRuns = 0
    /\ slugOnce' = generateSlug(slugTitle)
    /\ slugRuns' = 1
    /\ UNCHANGED <<slugTitle, slugTwice, connVars, storeVars>>

SlugAgain ==
    /\ slugRuns = 1
    /\ slugTwice' = generateSlug(slugOnce)
    /\ slugRuns' = 2
    /\ UNCHANGED <<slugTitle, slugOnce, connVars, storeVars>>

NextSlug == SlugFirst \/ SlugAgain

SlugSpec == InitSlug /\ [][NextSlug]_vars

\* C7: slug generation is idempotent: generating the slug of a generated
\* slug gives that slug again, for every title.
C7_SlugIdempotent == slugRuns = 2 => slugTwice = slugOnce

\* a title with upper case, punctuation, a space next to a hyphen, whose
\* slug differs from it and was regenerated
C7_Witness ==
    /\ slugRuns = 2
    /\ slugTitle = <<"B", " ", "-", "!">>
    /\ slugOnce = <<"b", "-">>

ConnSpec == InitConn /\ [][NextConn]_vars

\* ------------------------------------------------------------ properties

\* the Event the last successful save of an Event wrote
Stored ==
    CHOOSE e \in events :
        e.id = IF lastSave.input.isNew THEN nextEventId - 1 ELSE lastSave.input.id

EventSaved == lastSave.kind = "event" /\ lastSave.error = NoError

ValidationFailed(error) == error.kind \in {"Error", "ValidationError"}

\* ---- C5
UniqueSlugs == \A e1 \in events, e2 \in events : e1.id # e2.id => e1.slug # e2.slug

\* an insert that passes validation and the hook while a persisted Event
\* has the slug of its title
InsertOfTakenSlug ==
    /\ doc.kind = "event"
    /\ doc' = NoDoc
    /\ doc.isNew
    /\ ~ValidationFailed(lastSave'.error)
    /\ \E e \in events : e.slug = generateSlug(doc.f["title"])

\* C5: no two persisted Events ever have the same slug, and the insert of an
\* Event whose title normalizes to the slug of a persisted Event fails with
\* a duplicate-key (conflict) error and leaves the collection unchanged.
C5_SlugUnique ==
    /\ []UniqueSlugs
    /\ [][InsertOfTakenSlug =>
            lastSave'.error.kind = "DuplicateKey" /\ events' = events]_vars

\* "ab" was refused because "Ab" is persisted with the slug "ab"
C5_Witness ==
    /\ lastSave.kind = "event"
    /\ lastSave.input.isNew
    /\ lastSave.input.f["title"] = <<"a", "b">>
    /\ lastSave.input.slug = Missing
    /\ lastSave.error.kind = "DuplicateKey"
    /\ \E e \in events : e.f["title"] = <<"A", "b">> /\ e.slug = <<"a", "b">>

\* ---- C6
TitleChanged(d) == d.isNew \/ d.f["title"] # d.orig.f["title"]
SlugUnset(d) == d.slug = Missing \/ d.slug = <<>>

\* C6: after a successful save of an Event, the stored slug is
\* generateSlug(title) when the title was changed by the operation or the
\* slug was unset, and the slug the document had otherwise.
C6_SlugFollowsTitle ==
    EventSaved =>
        IF TitleChanged(lastSave.input) \/ SlugUnset(lastSave.input)
          THEN Stored.slug = generateSlug(Stored.f["title"])
          ELSE Stored.slug = lastSave.input.slug

\* an update that changed the title of an Event whose slug had been set by
\* hand: the slug was regenerated from the new title
C6_Witness ==
    /\ EventSaved
    /\ ~lastSave.input.isNew
    /\ lastSave.input.orig.f["title"] = <<"A", "b">>
    /\ lastSave.input.slug = <<"z", "z">>
    /\ Stored.f["title"] = <<"a", " ", "b">>
    /\ Stored.slug = <<"a", "-", "b">>

\* ---- C8
DigitChar(n) ==
    CASE n = 0 -> "0" [] n = 1 -> "1" [] n = 2 -> "2" [] n = 3 -> "3" [] n = 4 -> "4"
      [] n = 5 -> "5" [] n = 6 -> "6" [] n = 7 -> "7" [] n = 8 -> "8" [] n = 9 -> "9"

TwoDigits(n) == <<DigitChar(n \div 10), DigitChar(n % 10)>>

\* the 24-hour times HH:MM, hour 00-23 and minute 00-59
ValidTimes == {TwoDigits(h) \o <<":">> \o TwoDigits(m) : h \in 0..23, m \in 0..59}

\* C8: every persisted Event's time is a 24-hour HH:MM; a save whose
\* trimmed time is not one fails with a validation error; a save that
\* succeeds stores the trimmed time as it is.
C8_TimeIsHHMM ==
    /\ \A e \in events : e.f["time"] \in ValidTimes
    /\ lastSave.kind = "event" =>
         LET time == lastSave.input.f["time"] IN
         /\ (IsString(time) /\ Trim(time) \notin ValidTimes) =>
                ValidationFailed(lastSave.error)
         /\ lastSave.error = NoError =>
                Trim(time) \in ValidTimes /\ Stored.f["time"] = Trim(time)

\* "9:5" was refused by the hook's time check while an Event with the time
\* "09:05" is persisted
C8_Witness ==
    /\ lastSave.kind = "event"
    /\ lastSave.input.f["time"] = <<"9", ":", "5">>
    /\ lastSave.error # NoError
    /\ lastSave.error.message = "time"
    /\ \E e \in events : e.f["time"] = <<"0", "9", ":", "0", "5">>

\* ---- C9
Blank(v) == v = Missing \/ Trim(v) = <<>>

BlankPositions(d) ==
    {i \in 1..Len(RequiredStringFields) : Blank(d.f[RequiredStringFields[i]])}

FirstBlank(d) ==
    RequiredStringFields[CHOOSE i \in BlankPositions(d) : \A j \in BlankPositions(d) : i <= j]

Trimmed(v) ==
    /\ v # Missing
    /\ v # <<>>
    /\ v[1] \notin Whitespace
    /\ v[Len(v)] \notin Whitespace

\* a save with a blank required field fails with a validation error that
\* names the first blank field, and every persisted Event has its
\* required fields non-empty and trimmed
RequiredAndTrimmed ==
    /\ \A e \in events : \A n \in FieldNames : Trimmed(e.f[n])
    /\ (lastSave.kind = "event" /\ BlankPositions(lastSave.input) # {}) =>
          /\ ValidationFailed(lastSave.error)
          /\ FirstBlank(lastSave.input) \in lastSave.error.fields

\* C9 as stated: the stored value of every required field, date included,
\* is the trimmed value that was submitted.
C9_StoredIsTrimmedInput ==
    /\ RequiredAndTrimmed
    /\ EventSaved =>
          \A n \in FieldNames : Stored.f[n] = Trim(lastSave.input.f[n])

\* C9, amended: as stated for every required field but date, whose stored
\* value is the YYYY-MM-DD part of the date the trimmed value parses to.
C9_StoredIsTrimmedOrDatePart ==
    /\ RequiredAndTrimmed
    /\ EventSaved =>
          /\ \A n \in FieldNames \ {"date"} : Stored.f[n] = Trim(lastSave.input.f[n])
          /\ Stored.f["date"] = ParseDate(Trim(lastSave.input.f["date"]))

\* a save without schema validation whose venue and organizer are missing:
\* the hook's error names venue, the first of the two
C9_Witness ==
    /\ lastSave.kind = "event"
    /\ ~lastSave.vbs
    /\ lastSave.input.f["venue"] = Missing
    /\ lastSave.input.f["organizer"] = Missing
    /\ lastSave.error # NoError
    /\ lastSave.error.fields = {"venue"}

\* ---- C3
\* the step in which a Booking's save runs its validation and pre-save hook
BookingChecked == doc.kind = "booking" /\ doc' = NoDoc

GoodEmails == { <<"a", "@", "b", ".", "t">>, <<"x", "@", "b", ".", "z">> }

\* C3: a save of a Booking, new or already persisted, whose eventId is the
\* id of no persisted Event when the hook checks fails with an error,
\* writes nothing and starts no write; one with a valid email and the id of
\* a persisted Event goes on to its write, which persists the Booking.
C3_BookingNeedsEvent ==
    /\ [][BookingChecked =>
            /\ doc.eventId \notin {e.id : e \in events} =>
                  /\ lastSave'.kind = "booking"
                  /\ lastSave'.error # NoError
                  /\ pendingWrite' = NoDoc
                  /\ bookings' = bookings
            /\ (doc.eventId \in {e.id : e \in events} /\ doc.email \in GoodEmails) =>
                  /\ pendingWrite' = doc
                  /\ lastSave'.kind = "none"]_vars
    /\ [][(pendingWrite.kind = "booking" /\ pendingWrite' = NoDoc) =>
            /\ lastSave'.error = NoError
            /\ \E b \in bookings' :
                  /\ b.eventId = pendingWrite.eventId
                  /\ b.email = pendingWrite.email
                  /\ pendingWrite.isNew \/ b.id = pendingWrite.id]_vars

\* a persisted Booking was saved again after its Event had been deleted:
\* the save failed on the existence check and the Booking is as it was
C3_Witness ==
    /\ lastSave.kind = "booking"
    /\ ~lastSave.input.isNew
    /\ lastSave.error # NoError
    /\ lastSave.error.message = "Referenced event does not exist."
    /\ lastSave.input.orig \in bookings
    /\ lastSave.input.eventId \notin {e.id : e \in events}

\* ---- C4
\* the step in which a save runs its validation and pre-save hook
PrePersist == doc.kind # "none" /\ doc' = NoDoc

\* C4: when the validation or the pre-save hook of a save of an Event or a
\* Booking fails, both collections are as they were before the save and
\* no write is under way.
C4_FailedSaveWritesNothing ==
    [][(PrePersist /\ lastSave'.kind # "none" /\ ValidationFailed(lastSave'.error)) =>
            /\ events' = events
            /\ bookings' = bookings
            /\ nextEventId' = nextEventId
            /\ nextBookingId' = nextBookingId
            /\ pendingWrite' = NoDoc]_vars

\* an update of a persisted Event failed on its time and the Event is
\* persisted as it was loaded
C4_Witness ==
    /\ lastSave.kind = "event"
    /\ ~lastSave.input.isNew
    /\ lastSave.error # NoError
    /\ lastSave.error.message = "time"
    /\ lastSave.input.orig \in events
    /\ bookings # {}

\* ---- C1
FirstAttemptUnsettled == attState[1] \in {"pending", "io_ok", "io_err"}

\* C1: while the first connection attempt has not settled, mongoose.connect
\* has been invoked once, the cache holds that attempt and every caller
\* that awaits awaits it; the callers that awaited it and returned all
\* returned the handle it resolved with.
C1_ConcurrentCallsShareAttempt ==
    /\ FirstAttemptUnsettled =>
          /\ nAttempts = 1
          /\ promise = 1
          /\ conn = 0
          /\ \A c \in Callers : pc[c] = "awaiting" => awaiting[c] = 1
    /\ \A c \in Callers, d \in Callers :
          (pc[c] = "returned" /\ awaiting[c] = 1 /\ pc[d] = "returned" /\ awaiting[d] = 1)
              => (ret[c] = ret[d] /\ ret[c] = 1)

\* three callers joined the first attempt and all returned its handle
C1_Witness ==
    /\ nAttempts = 1
    /\ \A c \in Callers : pc[c] = "returned" /\ awaiting[c] = 1 /\ ret[c] = 1

\* ---- C2
\* the step in which a caller's await of a rejected attempt throws
AwaitThrows(c) == pc[c] = "awaiting" /\ pc'[c] = "failed"

\* C2 as stated: when the attempt a caller awaits rejects, the caller fails
\* with that attempt's error; what its catch clears from the cache is that
\* attempt (or nothing, another caller having cleared it); the step leaves
\* cached.promise null and cached.conn null, so that the next call starts
\* a new attempt.
C2_RejectionClearsCache ==
    [][\A c \in Callers : AwaitThrows(c) =>
            /\ attState[awaiting[c]] = "rejected"
            /\ err'[c] = awaiting[c]
            /\ promise \in {0, awaiting[c]}
            /\ promise' = 0
            /\ conn' = 0]_vars

\* ---- C10
\* C10 as stated: at most one attempt is in flight at any time;
\* mongoose.connect is invoked only with no handle cached and no attempt in
\* flight; a cached handle is never cleared or replaced, and no attempt is
\* started once a handle is cached.
C10_OneAttemptAtATime ==
    /\ [](Cardinality({a \in Attempts : InFlight(a)}) <= 1)
    /\ [][nAttempts' # nAttempts =>
            conn = 0 /\ \A a \in Attempts : ~InFlight(a)]_vars
    /\ [][conn # 0 => conn' = conn /\ nAttempts' = nAttempts]_vars

====
